---------------------------- MODULE Spec2Model ----------------------------
(***************************************************************************)
(* Closed-form option pricing (fin_recipe_source.c): cnd, blackscholes,    *)
(* gbs, phi, BSAmericanCallApprox and BSAmericanApprox.                    *)
(*                                                                         *)
(* Every quantity of the program is a C double.  A double is modelled as a *)
(* binary floating-point number with the exponent range of IEEE-754        *)
(* binary64 (overflow at 2^1024, smallest normal 2^-1022, gradual          *)
(* underflow, signed zeros, infinities, NaN, round-to-nearest-even) and a  *)
(* significand of MantBits bits instead of 53.  The arithmetic operators   *)
(* +, -, *, / and sqrt are correctly rounded in that format; exp, log and  *)
(* pow are computed by table-driven base-2 algorithms and rounded to the   *)
(* format.                                                                 *)
(*                                                                         *)
(* assert() is modelled as compiled in (no NDEBUG): a failed assertion     *)
(* ends the call.  A failed assert_valid_* macro (or one of the two extra  *)
(* parameter assertions of blackscholes) is the outcome "invalid"; any     *)
(* other failed assertion is the outcome "fault".                          *)
(***************************************************************************)
EXTENDS Integers, Sequences, FiniteSets, TLC

(* Width of the significand of the modelled double. *)
MantBits == 12

Prec == MantBits
P2 == [i \in 0..30 |-> 2^i]
EMax == 1024 - Prec
EMin == (-1021) - Prec

Max(i, j) == IF i >= j THEN i ELSE j
Min(i, j) == IF i <= j THEN i ELSE j
Abs(i) == IF i < 0 THEN -i ELSE i

(* Local([x \in {e} |-> body]) is body with the local variable x = e. *)
Local(f) == f[CHOOSE x \in DOMAIN f : TRUE]

--------------------------------------------------------------------------
(* The values of a double: sgn * man * 2^exp, or an infinity, or NaN.      *)

NaN == [cls |-> "nan", sgn |-> 1, man |-> 0, exp |-> 0]
Inf(s) == [cls |-> "inf", sgn |-> s, man |-> 0, exp |-> 0]
Fin(s, m, e) == [cls |-> "fin", sgn |-> s, man |-> m, exp |-> e]
Zero(s) == Fin(s, 0, EMin)

IsNaN(a) == a.cls = "nan"
IsInf(a) == a.cls = "inf"
IsFin(a) == a.cls = "fin"
IsZero(a) == a.cls = "fin" /\ a.man = 0

RECURSIVE BitLenIn(_, _, _)
BitLenIn(M, lo, hi) ==
    IF lo = hi THEN lo
    ELSE LET mid == (lo + hi) \div 2
         IN  IF M < P2[mid] THEN BitLenIn(M, lo, mid)
             ELSE BitLenIn(M, mid + 1, hi)

(* The number of bits of M, 0 <= M < 2^31. *)
BitLen(M) == BitLenIn(M, 0, 31)

Pack(s, m, e) ==
    IF m = 0 THEN Zero(s)
    ELSE IF e > EMax THEN Inf(s)
    ELSE Fin(s, m, e)

(* q incremented when the discarded part rem (of weight 2 * half, f > 0   *)
(* iff st = 1) rounds up to nearest, ties to even.                         *)
RoundUp(q, rem, half, st) ==
    IF rem > half \/ (rem = half /\ (st = 1 \/ q % 2 = 1)) THEN q + 1 ELSE q

RoundPack(s, q, e) ==
    IF q = P2[Prec] THEN Pack(s, P2[Prec - 1], e + 1) ELSE Pack(s, q, e)

(* M of n bits with its last sh bits discarded (sh <= 0: none). *)
RoundShift(s, M, E, st, n, sh) ==
    IF sh <= 0 THEN Pack(s, M * P2[-sh], E + sh)
    ELSE IF sh > n THEN Zero(s)
    ELSE RoundPack(s, RoundUp(M \div P2[sh], M % P2[sh], P2[sh - 1], st),
                   E + sh)

(* Round-to-nearest-even of s * (M + f) * 2^E, where 0 <= f < 1 and        *)
(* f > 0 iff st = 1.  A caller that passes st = 1 passes an M of at least  *)
(* Prec + 2 bits.                                                          *)
Round(s, M, E, st) ==
    IF M = 0 THEN Zero(s)
    ELSE Local([n \in {BitLen(M)} |->
             RoundShift(s, M, E, st, n, Max(n - Prec, EMin - E))])

(* A finite non-zero double with its significand shifted to Prec bits      *)
(* (the exponent of a subnormal goes below EMin).                          *)
NormMan(a) == a.man * P2[Prec - BitLen(a.man)]
NormExp(a) == a.exp - (Prec - BitLen(a.man))

FromInt(n) == Round(IF n < 0 THEN -1 ELSE 1, Abs(n), 0, 0)

FNeg(a) == IF IsNaN(a) THEN NaN ELSE [a EXCEPT !.sgn = -a.sgn]
fabs(a) == IF IsNaN(a) THEN NaN ELSE [a EXCEPT !.sgn = 1]

FAddInt(V, e) ==
    IF V = 0 THEN Zero(1)
    ELSE Round(IF V < 0 THEN -1 ELSE 1, Abs(V), e, 0)

(* hi + lo for finite non-zero hi, lo with hi.exp >= lo.exp. *)
FAddOrd(hi, lo) ==
    IF hi.exp - lo.exp > Prec + 2
    THEN Round(hi.sgn,
               hi.man * 4 - (IF hi.sgn = lo.sgn THEN 0 ELSE 1),
               hi.exp - 2, 1)
    ELSE FAddInt(hi.sgn * hi.man * P2[hi.exp - lo.exp] + lo.sgn * lo.man,
                 lo.exp)

FAddFin(a, b) ==
    IF a.man = 0 /\ b.man = 0
    THEN Zero(IF a.sgn = -1 /\ b.sgn = -1 THEN -1 ELSE 1)
    ELSE IF a.man = 0 THEN b
    ELSE IF b.man = 0 THEN a
    ELSE IF a.exp >= b.exp THEN FAddOrd(a, b)
    ELSE FAddOrd(b, a)

FAdd(a, b) ==
    IF IsNaN(a) \/ IsNaN(b) THEN NaN
    ELSE IF IsInf(a) /\ IsInf(b) THEN (IF a.sgn = b.sgn THEN a ELSE NaN)
    ELSE IF IsInf(a) THEN a
    ELSE IF IsInf(b) THEN b
    ELSE FAddFin(a, b)

FSub(a, b) == FAdd(a, FNeg(b))

FMul(a, b) ==
    IF IsNaN(a) \/ IsNaN(b) THEN NaN
    ELSE IF (IsInf(a) /\ IsZero(b)) \/ (IsZero(a) /\ IsInf(b)) THEN NaN
    ELSE IF IsInf(a) \/ IsInf(b) THEN Inf(a.sgn * b.sgn)
    ELSE Round(a.sgn * b.sgn, a.man * b.man, a.exp + b.exp, 0)

FDivInt(s, num, den, e) ==
    Round(s, num \div den, e, IF num % den = 0 THEN 0 ELSE 1)

FDiv(a, b) ==
    IF IsNaN(a) \/ IsNaN(b) THEN NaN
    ELSE IF IsInf(a) THEN (IF IsInf(b) THEN NaN ELSE Inf(a.sgn * b.sgn))
    ELSE IF IsInf(b) THEN Zero(a.sgn * b.sgn)
    ELSE IF IsZero(b) THEN (IF IsZero(a) THEN NaN ELSE Inf(a.sgn * b.sgn))
    ELSE IF IsZero(a) THEN Zero(a.sgn * b.sgn)
    ELSE FDivInt(a.sgn * b.sgn, NormMan(a) * P2[Prec + 2], NormMan(b),
                 NormExp(a) - NormExp(b) - (Prec + 2))

RECURSIVE ISqrtIn(_, _, _)
ISqrtIn(R, lo, hi) ==
    IF lo = hi THEN lo
    ELSE LET mid == (lo + hi + 1) \div 2
         IN  IF mid * mid <= R THEN ISqrtIn(R, mid, hi)
             ELSE ISqrtIn(R, lo, mid - 1)

(* The shift that makes the exponent e of the radicand even. *)
SqrtShift(e) == IF (e - (Prec + 2)) % 2 = 0 THEN Prec + 2 ELSE Prec + 3

SqrtInt(R, e) ==
    Local([s \in {ISqrtIn(R, 0, 46340)} |->
        Round(1, s, e, IF s * s = R THEN 0 ELSE 1)])

(* sqrt of <math.h>, correctly rounded. *)
sqrt(a) ==
    IF IsNaN(a) THEN NaN
    ELSE IF IsZero(a) THEN a
    ELSE IF a.sgn = -1 THEN NaN
    ELSE IF IsInf(a) THEN a
    ELSE SqrtInt(NormMan(a) * P2[SqrtShift(NormExp(a))],
                 (NormExp(a) - SqrtShift(NormExp(a))) \div 2)

--------------------------------------------------------------------------
(* The comparison operators of C on doubles: false when an operand is NaN. *)

Sgn(a) == IF IsZero(a) THEN 0 ELSE a.sgn
MagExp(a) == IF IsInf(a) THEN EMax + 1 ELSE a.exp
MagLt(a, b) ==
    \/ MagExp(a) < MagExp(b)
    \/ MagExp(a) = MagExp(b) /\ a.man < b.man
Less(a, b) ==
    IF Sgn(a) # Sgn(b) THEN Sgn(a) < Sgn(b)
    ELSE IF Sgn(a) = 1 THEN MagLt(a, b)
    ELSE IF Sgn(a) = -1 THEN MagLt(b, a)
    ELSE FALSE

FLt(a, b) == ~IsNaN(a) /\ ~IsNaN(b) /\ Less(a, b)
FLe(a, b) == ~IsNaN(a) /\ ~IsNaN(b) /\ ~Less(b, a)

FGt(a, b) == FLt(b, a)
FGe(a, b) == FLe(b, a)

(* fmax of <math.h>: a NaN operand is treated as missing. *)
fmax(a, b) ==
    IF IsNaN(a) THEN b
    ELSE IF IsNaN(b) THEN a
    ELSE IF Less(a, b) THEN b ELSE a

--------------------------------------------------------------------------
(* exp, log and pow of <math.h>.                                           *)

One == Fin(1, P2[Prec - 1], 1 - Prec)

(* n / 10^k for a decimal literal of the source, 0 <= k <= 9. *)
Dec(n, k) == FDiv(FromInt(n), FromInt(10^k))

(* 2^(2^-i) * 2^14, for i = 1..12. *)
Exp2Tab == <<23170, 19484, 17867, 17109, 16743, 16562,
             16473, 16428, 16406, 16395, 16390, 16387>>

RECURSIVE TwoToFracIn(_, _, _)
TwoToFracIn(fb, i, acc) ==
    IF i > 12 THEN acc
    ELSE TwoToFracIn(fb, i + 1,
                     IF (fb \div P2[12 - i]) % 2 = 1
                     THEN (acc * Exp2Tab[i] + P2[13]) \div P2[14]
                     ELSE acc)

(* 2^(fb / 4096) * 2^14, for 0 <= fb < 4096. *)
TwoToFrac(fb) == TwoToFracIn(fb, 1, P2[14])

(* The integer part n and the fraction fb / 4096 (truncated) of M / 2^sh. *)
Exp2Int(M, sh) ==
    IF sh <= 0 THEN M * P2[-sh]
    ELSE IF sh > 30 THEN 0 ELSE M \div P2[sh]
Exp2Rem(M, sh) ==
    IF sh <= 0 THEN 0
    ELSE IF sh > 30 THEN M ELSE M % P2[sh]
Exp2Frac(M, sh) ==
    IF sh <= 0 THEN 0
    ELSE IF sh < 12 THEN Exp2Rem(M, sh) * P2[12 - sh]
    ELSE IF sh - 12 > 30 THEN 0
    ELSE Exp2Rem(M, sh) \div P2[sh - 12]

(* 2^(s * (n + fb / 4096)), rounded. *)
Exp2Of(s, n, fb) ==
    IF s = 1 THEN Round(1, TwoToFrac(fb), n - 14, 0)
    ELSE IF fb = 0 THEN Round(1, P2[14], (-n) - 14, 0)
    ELSE Round(1, TwoToFrac(P2[12] - fb), (-n) - 15, 0)

(* 2^(s * M * 2^E) for 0 < M < 2^29, rounded. *)
Exp2(s, M, E) ==
    IF BitLen(M) + E > 11 THEN (IF s = 1 THEN Inf(1) ELSE Zero(1))
    ELSE IF BitLen(M) + E < -(Prec + 3) THEN One
    ELSE Exp2Of(s, Exp2Int(M, -E), Exp2Frac(M, -E))

(* exp(a) = 2^(a * log2(e)); log2(e) * 2^15 = 47274. *)
exp(a) ==
    IF IsNaN(a) THEN NaN
    ELSE IF IsInf(a) THEN (IF a.sgn = 1 THEN a ELSE Zero(1))
    ELSE IF IsZero(a) THEN One
    ELSE Exp2(a.sgn, NormMan(a) * 47274, NormExp(a) - 15)

RECURSIVE Log2FracIn(_, _, _)
Log2FracIn(z, i, acc) ==
    IF i > 12 THEN acc
    ELSE LET zz == (z * z) \div P2[14]
         IN  IF zz >= P2[15] THEN Log2FracIn(zz \div 2, i + 1, 2 * acc + 1)
             ELSE Log2FracIn(zz, i + 1, 2 * acc)

(* log2(a) * 4096 for a finite a > 0, truncated. *)
Log2Fix(a) ==
    (NormExp(a) + Prec - 1) * P2[12]
        + Log2FracIn(NormMan(a) * P2[15 - Prec], 1, 0)

Log2F(a) ==
    Local([L \in {Log2Fix(a)} |->
        Round(IF L < 0 THEN -1 ELSE 1, Abs(L), -12, 0)])

LN2 == Dec(693147181, 9)

log(a) ==
    IF IsNaN(a) THEN NaN
    ELSE IF IsZero(a) THEN Inf(-1)
    ELSE IF a.sgn = -1 THEN NaN
    ELSE IF IsInf(a) THEN a
    ELSE FMul(Log2F(a), LN2)

IsInteger(a) ==
    /\ IsFin(a)
    /\ \/ a.man = 0
       \/ a.exp >= 0
       \/ a.exp >= -30 /\ a.man % P2[-a.exp] = 0
IsOddInteger(a) ==
    /\ IsFin(a) /\ a.man # 0
    /\ \/ a.exp = 0 /\ a.man % 2 = 1
       \/ a.exp < 0 /\ a.exp >= -30 /\ a.man % P2[-a.exp] = 0
                    /\ (a.man \div P2[-a.exp]) % 2 = 1

(* pow(x, y) for x > 0 finite and y finite, non-zero: 2^(y * log2(x)). *)
PowPos(x, y) ==
    Local([l \in {Log2F(x)} |-> IF IsZero(l) THEN One
                   ELSE Exp2(y.sgn * l.sgn, y.man * l.man, y.exp + l.exp)])

(* pow(x, y) is negative. *)
PowNeg(x, y) == x.sgn = -1 /\ IsOddInteger(y)
PowSgn(x, y) == IF PowNeg(x, y) THEN -1 ELSE 1

pow(x, y) ==
    IF IsZero(y) THEN One
    ELSE IF x = One THEN One
    ELSE IF IsNaN(x) \/ IsNaN(y) THEN NaN
    ELSE IF y = One THEN x
    ELSE IF IsInf(y)
    THEN IF fabs(x) = One THEN One
         ELSE IF Less(fabs(x), One) = (y.sgn = 1) THEN Zero(1)
         ELSE Inf(1)
    ELSE IF IsZero(x) \/ IsInf(x)
    THEN IF IsZero(x) = (y.sgn = 1) THEN Zero(PowSgn(x, y))
         ELSE Inf(PowSgn(x, y))
    ELSE IF x.sgn = -1 /\ ~IsInteger(y) THEN NaN
    ELSE IF PowNeg(x, y) THEN FNeg(PowPos(fabs(x), y))
    ELSE PowPos(fabs(x), y)

--------------------------------------------------------------------------
(* fin_recipe_source.c: the parameter ranges and the validity macros.      *)

is_sane(a) == ~IsNaN(a) /\ IsFin(a)

VOLATILITY_MIN == Dec(1, 7)
VOLATILITY_MAX == Dec(10099999, 5)
TIME_MIN == FDiv(One, FMul(FromInt(253), FromInt(24)))
TIME_MAX == FromInt(20)
INTEREST_RATE_MIN == Zero(1)
INTEREST_RATE_MAX == FromInt(1000)
PRICE_MIN == Dec(1, 6)
PRICE_MAX == FMul(FromInt(1000000), FromInt(1000000))
STRIKE_MIN == PRICE_MIN
STRIKE_MAX == PRICE_MAX
COST_OF_CARRY_MIN == FNeg(INTEREST_RATE_MAX)
COST_OF_CARRY_MAX == INTEREST_RATE_MAX

assert_valid_price(S) ==
    is_sane(S) /\ FGe(S, PRICE_MIN) /\ FLe(S, PRICE_MAX)
assert_valid_strike(X) ==
    is_sane(X) /\ FGe(X, STRIKE_MIN) /\ FLe(X, STRIKE_MAX)
(* assert_valid_time without the lower bound. *)
assert_valid_time_no_min(T) ==
    is_sane(T) /\ FLe(T, TIME_MAX)
assert_valid_time(T) ==
    is_sane(T) /\ FGe(T, TIME_MIN) /\ FLe(T, TIME_MAX)
assert_valid_interest_rate(r) ==
    is_sane(r) /\ FGe(r, INTEREST_RATE_MIN) /\ FLe(r, INTEREST_RATE_MAX)
assert_valid_cost_of_carry(b) ==
    is_sane(b) /\ FGe(b, COST_OF_CARRY_MIN) /\ FLe(b, COST_OF_CARRY_MAX)
assert_valid_volatility(v) ==
    is_sane(v) /\ FGe(v, VOLATILITY_MIN) /\ FLe(v, VOLATILITY_MAX)

--------------------------------------------------------------------------
(* The outcome of a call.  status is "ok" (value is the returned double),  *)
(* "invalid" (a parameter assertion failed) or "fault" (another assertion  *)
(* failed); at names the function whose assertion failed.  ev lists, in    *)
(* the order of evaluation, the local quantities the call computed with    *)
(* their values; phis lists the calls of phi it made.  value is NaN in an  *)
(* outcome that is not "ok".                                               *)

Ok(val, ev, phis) ==
    [status |-> "ok", at |-> "", value |-> val, ev |-> ev, phis |-> phis]
Failed(st, at, ev, phis) ==
    [status |-> st, at |-> at, value |-> NaN, ev |-> ev, phis |-> phis]
Q(name, val) == [name |-> name, val |-> val]
Names(ev) == {ev[i].name : i \in DOMAIN ev}
ValOf(ev, name) == ev[CHOOSE i \in DOMAIN ev : ev[i].name = name].val

Half == Dec(5, 1)
Two == FromInt(2)

--------------------------------------------------------------------------
(* Math primitives. *)

one_div_sqrt2pi == Dec(398942280, 9)

pow2(n) == FMul(n, n)

a1 == Dec(31938153, 8)
a2 == FNeg(Dec(356563782, 9))
a3 == Dec(1781477937, 9)
a4 == FNeg(Dec(1821255978, 9))
a5 == Dec(1330274429, 9)

(* A cnd that returns result for every x, used to show that the symmetry  *)
(* of cnd rests on the last step.                                          *)
cnd_no_reflect(x, result) == result

(* The last step of cnd: the value for a negative x is one minus result. *)
cnd_reflect(x, result) ==
    IF FLt(x, Zero(1)) THEN FSub(One, result) ELSE result

(* The value cnd returns for a sane x. *)
cnd(x) ==
    Local([K \in {FDiv(One, FAdd(One, FMul(Dec(2316419, 7), fabs(x))))} |->
    Local([a12345k \in {FAdd(FAdd(FAdd(FAdd(
            FMul(a1, K),
            FMul(FMul(a2, K), K)),
            FMul(FMul(FMul(a3, K), K), K)),
            FMul(FMul(FMul(FMul(a4, K), K), K), K)),
            FMul(FMul(FMul(FMul(FMul(a5, K), K), K), K), K))} |->
    Local([result \in {FSub(One,
             FMul(FMul(one_div_sqrt2pi,
                       exp(FDiv(FNeg(pow2(fabs(x))), Two))),
                  a12345k))} |->
    cnd_reflect(x, result)])])])

(* cnd as a call: its two assertions are is_sane(x). *)
cndCall(x) ==
    IF is_sane(x) THEN Ok(cnd(x), <<>>, <<>>)
    ELSE Failed("fault", "cnd", <<>>, <<>>)

--------------------------------------------------------------------------
(* European options. *)

(* The assertions with v < 100.0 in place of v <= 100.0. *)
blackscholes_asserts_strict(r, v) ==
    /\ FGe(r, Zero(1))
    /\ FGt(v, Zero(1)) /\ FLt(v, FromInt(100))

(* The two assertions blackscholes adds to the range checks. *)
blackscholes_asserts(r, v) ==
    /\ FGe(r, Zero(1))
    /\ FGt(v, Zero(1)) /\ FLe(v, FromInt(100))

blackscholes(fCall, S, X, T, r, v) ==
    IF ~(/\ assert_valid_price(S)
         /\ assert_valid_strike(X)
         /\ assert_valid_time(T)
         /\ assert_valid_interest_rate(r)
         /\ assert_valid_volatility(v))
    THEN Failed("invalid", "blackscholes", <<>>, <<>>)
    ELSE IF ~blackscholes_asserts(r, v)
    THEN Failed("invalid", "blackscholes", <<>>, <<>>)
    ELSE
    Local([vst \in {FMul(v, sqrt(T))} |->
    Local([d1 \in {FDiv(FAdd(log(FDiv(S, X)),
                  FMul(FAdd(r, FDiv(pow2(v), Two)), T)),
             vst)} |->
    Local([d2 \in {FSub(d1, vst)} |->
    Local([ev \in {<<Q("vst", vst), Q("d1", d1), Q("d2", d2)>>} |->
    IF ~(is_sane(d1) /\ is_sane(d2))
    THEN Failed("fault", "cnd", ev, <<>>)
    ELSE IF fCall
    THEN Ok(FSub(FMul(S, cnd(d1)),
                 FMul(FMul(X, exp(FMul(FNeg(r), T))), cnd(d2))),
            ev, <<>>)
    ELSE Ok(FSub(FMul(FMul(X, exp(FMul(FNeg(r), T))), cnd(FNeg(d2))),
                 FMul(S, cnd(FNeg(d1)))),
            ev, <<>>)])])])])

gbs(fCall, S, X, T, r, b, v) ==
    IF ~(/\ assert_valid_price(S)
         /\ assert_valid_strike(X)
         /\ assert_valid_time(T)
         /\ assert_valid_interest_rate(r)
         /\ assert_valid_cost_of_carry(b)
         /\ assert_valid_volatility(v))
    THEN Failed("invalid", "gbs", <<>>, <<>>)
    ELSE
    Local([vst \in {FMul(v, sqrt(T))} |->
    IF ~is_sane(vst)
    THEN Failed("fault", "gbs", <<Q("vst", vst)>>, <<>>)
    ELSE
    Local([d1 \in {FDiv(FAdd(log(FDiv(S, X)),
                  FMul(FAdd(b, FDiv(pow2(v), Two)), T)),
             vst)} |->
    Local([d2 \in {FSub(d1, vst)} |->
    Local([ebrt \in {exp(FMul(FSub(b, r), T))} |->
    Local([ert \in {exp(FMul(FNeg(r), T))} |->
    Local([ev \in {<<Q("vst", vst), Q("d1", d1), Q("d2", d2),
          Q("ebrt", ebrt), Q("ert", ert)>>} |->
    IF ~(is_sane(d1) /\ is_sane(d2))
    THEN Failed("fault", "cnd", ev, <<>>)
    ELSE
    Local([result \in {IF fCall
        THEN FSub(FMul(FMul(S, ebrt), cnd(d1)),
                  FMul(FMul(X, ert), cnd(d2)))
        ELSE FSub(FMul(FMul(X, ert), cnd(FNeg(d2))),
                  FMul(FMul(S, ebrt), cnd(FNeg(d1))))} |->
    IF ~is_sane(result)
    THEN Failed("fault", "gbs", ev, <<>>)
    ELSE Ok(result, ev, <<>>)])])])])])])])

--------------------------------------------------------------------------
(* American options: Bjerksund and Stensland. *)

phi(S, T, gamma_val, H, I, r, b, v) ==
    IF ~(/\ assert_valid_price(S)
         /\ assert_valid_time(T)
         /\ assert_valid_interest_rate(r)
         /\ assert_valid_volatility(v))
    THEN Failed("invalid", "phi", <<>>, <<>>)
    ELSE
    Local([vst \in {FMul(v, sqrt(T))} |->
    Local([vv \in {FMul(v, v)} |->
    Local([lambda \in {FMul(FAdd(FAdd(FNeg(r), FMul(gamma_val, b)),
                  FMul(FMul(FMul(Half, gamma_val),
                            FSub(gamma_val, One)),
                       vv)),
             T)} |->
    Local([d \in {FDiv(FNeg(FAdd(log(FDiv(S, H)),
                       FMul(FAdd(b, FMul(FSub(gamma_val, Half), vv)),
                            T))),
             vst)} |->
    Local([kappa \in {FAdd(FDiv(FMul(Two, b), vv),
             FSub(FMul(Two, gamma_val), One))} |->
    Local([d3 \in {FSub(d, FDiv(FMul(Two, log(FDiv(I, S))), vst))} |->
    IF ~(is_sane(d) /\ is_sane(d3))
    THEN Failed("fault", "cnd", <<>>, <<>>)
    ELSE Ok(FMul(FMul(exp(lambda), pow(S, gamma_val)),
                 FSub(cnd(d),
                      FMul(pow(FDiv(I, S), kappa), cnd(d3)))),
            <<>>, <<>>)])])])])])])

(* A call of phi with the arguments H and I exchanged. *)
PhiCallSwapped(S, T, gamma_val, H, I, r, b, v) ==
    [S |-> S, T |-> T, gamma |-> gamma_val, H |-> I, I |-> H,
     r |-> r, b |-> b, v |-> v,
     out |-> phi(S, T, gamma_val, I, H, r, b, v)]

(* One call of phi as BSAmericanCallApprox records it. *)
PhiCall(S, T, gamma_val, H, I, r, b, v) ==
    [S |-> S, T |-> T, gamma |-> gamma_val, H |-> H, I |-> I,
     r |-> r, b |-> b, v |-> v,
     out |-> phi(S, T, gamma_val, H, I, r, b, v)]

(* The calls of phi up to and including the first that fails. *)
RECURSIVE UpToFailure(_)
UpToFailure(calls) ==
    IF calls = <<>> THEN <<>>
    ELSE IF Head(calls).out.status # "ok" THEN <<Head(calls)>>
    ELSE <<Head(calls)>> \o UpToFailure(Tail(calls))

(* The test with b > r in place of b >= r. *)
NeverOptimalStrict(b, r) == FGt(b, r)

(* The test that selects the European branch: with b >= r it is never    *)
(* optimal to exercise before maturity.                                    *)
NeverOptimalToExercise(b, r) == FGe(b, r)

BSAmericanCallApprox(S, X, T, r, b, v) ==
    IF ~(/\ assert_valid_price(S)
         /\ assert_valid_strike(X)
         /\ assert_valid_time(T)
         /\ assert_valid_interest_rate(r)
         /\ assert_valid_volatility(v))
    THEN Failed("invalid", "BSAmericanCallApprox", <<>>, <<>>)
    ELSE IF NeverOptimalToExercise(b, r)
    THEN Local([g \in {gbs(TRUE, S, X, T, r, b, v)} |->
             [g EXCEPT !.ev = <<Q("gbs", g.value)>> \o g.ev]])
    ELSE
    Local([vv \in {FMul(v, v)} |->
    Local([e1 \in {<<Q("vv", vv)>>} |->
    IF ~is_sane(vv)
    THEN Failed("fault", "BSAmericanCallApprox", e1, <<>>)
    ELSE
    Local([bvv \in {FDiv(b, vv)} |->
    Local([Beta \in {FAdd(FSub(Half, bvv),
             sqrt(FAdd(pow2(FSub(bvv, Half)),
                       FDiv(FMul(Two, r), vv))))} |->
    Local([e2 \in {Append(e1, Q("Beta", Beta))} |->
    IF ~is_sane(Beta)
    THEN Failed("fault", "BSAmericanCallApprox", e2, <<>>)
    ELSE
    Local([BInfinity \in {FMul(FDiv(Beta, FSub(Beta, One)), X)} |->
    Local([e3 \in {Append(e2, Q("BInfinity", BInfinity))} |->
    IF ~is_sane(BInfinity)
    THEN Failed("fault", "BSAmericanCallApprox", e3, <<>>)
    ELSE
    Local([B0 \in {fmax(X, FMul(FDiv(r, FSub(r, b)), X))} |->
    Local([e4 \in {Append(e3, Q("B0", B0))} |->
    IF ~is_sane(B0)
    THEN Failed("fault", "BSAmericanCallApprox", e4, <<>>)
    ELSE
    Local([ht \in {FDiv(FMul(FNeg(FAdd(FMul(b, T),
                            FMul(FMul(Two, v), sqrt(T)))),
                  B0),
             FSub(BInfinity, B0))} |->
    Local([e5 \in {Append(e4, Q("ht", ht))} |->
    IF ~is_sane(ht)
    THEN Failed("fault", "BSAmericanCallApprox", e5, <<>>)
    ELSE
    Local([I \in {FAdd(B0, FMul(FSub(BInfinity, B0), FSub(One, exp(ht))))} |->
    Local([e6 \in {Append(e5, Q("I", I))} |->
    IF ~is_sane(I)
    THEN Failed("fault", "BSAmericanCallApprox", e6, <<>>)
    ELSE IF FGe(S, I)
    THEN Ok(FSub(S, X), e6, <<>>)
    ELSE
    Local([alpha \in {FMul(FSub(I, X), pow(I, FNeg(Beta)))} |->
    Local([e7 \in {Append(e6, Q("alpha", alpha))} |->
    Local([calls \in {UpToFailure(<<PhiCall(S, T, Beta, I, I, r, b, v),
                                      PhiCall(S, T, One, I, I, r, b, v),
                                      PhiCall(S, T, One, X, I, r, b, v),
                                      PhiCall(S, T, Zero(1), I, I, r, b, v),
                                      PhiCall(S, T, Zero(1), X, I, r, b, v)>>)}
           |->
    IF calls[Len(calls)].out.status # "ok"
    THEN Failed(calls[Len(calls)].out.status, calls[Len(calls)].out.at,
                e7, calls)
    ELSE Ok(FAdd(FSub(FSub(FAdd(FSub(
                FMul(alpha, pow(S, Beta)),
                FMul(alpha, calls[1].out.value)),
                calls[2].out.value),
                calls[3].out.value),
                FMul(X, calls[4].out.value)),
                FMul(X, calls[5].out.value)),
            e7, calls)])])])])])])])])])])])])])])])])

(* A transformation that passes the rate on unchanged. *)
PutRateUnchanged(r, b) == r

(* The Bjerksund and Stensland put-call transformation: the rate and the *)
(* cost of carry the put passes to BSAmericanCallApprox.                   *)
PutRate(r, b) == FSub(r, b)
PutCarry(b) == FNeg(b)

BSAmericanApprox(fCall, S, X, T, r, b, v) ==
    IF ~(/\ assert_valid_price(S)
         /\ assert_valid_strike(X)
         /\ assert_valid_time(T)
         /\ assert_valid_interest_rate(r)
         /\ assert_valid_volatility(v))
    THEN Failed("invalid", "BSAmericanApprox", <<>>, <<>>)
    ELSE
    Local([c \in {IF fCall
        THEN BSAmericanCallApprox(S, X, T, r, b, v)
        ELSE Local([rb \in {PutRate(r, b)} |->
             Local([nb \in {PutCarry(b)} |->
                 BSAmericanCallApprox(X, S, T, rb, nb, v)])])} |->
    IF c.status # "ok" THEN c
    ELSE IF ~is_sane(c.value)
    THEN Failed("fault", "BSAmericanApprox", c.ev, c.phis)
    ELSE c])

--------------------------------------------------------------------------
(* The program has no state of its own: a behaviour is one call of one     *)
(* public function.  args holds the arguments the caller supplies, fn the  *)
(* function called ("" before the call), out the outcome of the call.      *)

VARIABLES fn, args, out

vars == <<fn, args, out>>

Args(fCall, S, X, T, r, b, v, x) ==
    [fCall |-> fCall, S |-> S, X |-> X, T |-> T, r |-> r, b |-> b,
     v |-> v, x |-> x]

NoOutcome == Failed("", "", <<>>, <<>>)

Start(inputs) == fn = "" /\ args \in inputs /\ out = NoOutcome

Call(name, outcome) ==
    /\ fn = ""
    /\ fn' = name
    /\ out' = outcome
    /\ UNCHANGED args

CallCnd == Call("cnd", cndCall(args.x))

CallBlackScholes ==
    Call("blackscholes",
         blackscholes(args.fCall, args.S, args.X, args.T, args.r, args.v))

CallGbs ==
    Call("gbs",
         gbs(args.fCall, args.S, args.X, args.T, args.r, args.b, args.v))

CallAmericanCallApprox ==
    Call("BSAmericanCallApprox",
         BSAmericanCallApprox(args.S, args.X, args.T, args.r, args.b,
                              args.v))

CallAmericanApprox ==
    Call("BSAmericanApprox",
         BSAmericanApprox(args.fCall, args.S, args.X, args.T, args.r,
                          args.b, args.v))

--------------------------------------------------------------------------
(* The arguments the calls are checked on. *)

(* cnd is checked on n/8 for |n| <= XRange and on the values below. *)
XRange == 80

Tiny == Fin(1, P2[Prec - 1], -60)
Hundred == FromInt(100)

NonFinite == {NaN, Inf(1), Inf(-1)}

XVals ==
    {FDiv(FromInt(n), FromInt(8)) : n \in (-XRange)..XRange}
        \cup {Zero(-1), Tiny, FNeg(Tiny), FromInt(40), FromInt(-40),
              FromInt(1000000000), FromInt(-1000000000)}
        \cup NonFinite

CndInputs ==
    {Args(TRUE, Hundred, Hundred, One, Zero(1), Zero(1), One, x) :
        x \in XVals}

InitCnd == Start(CndInputs)
NextCnd == CallCnd
SpecCnd == InitCnd /\ [][NextCnd]_vars

(* European calls: every combination of in-range values, and the base     *)
(* tuple with one argument replaced by a value outside its range.          *)
EuroValid ==
    {Args(fCall, S, X, T, r, b, v, Zero(1)) :
        fCall \in BOOLEAN,
        S \in {PRICE_MIN, FromInt(90), Hundred, PRICE_MAX},
        X \in {STRIKE_MIN, Hundred, STRIKE_MAX},
        T \in {TIME_MIN, Half, TIME_MAX},
        r \in {INTEREST_RATE_MIN, Dec(5, 2), INTEREST_RATE_MAX},
        b \in {COST_OF_CARRY_MIN, Zero(1), Dec(5, 2), COST_OF_CARRY_MAX},
        v \in {VOLATILITY_MIN, Dec(25, 2), Hundred, Dec(1005, 1),
               VOLATILITY_MAX}}

Base(fCall) ==
    Args(fCall, Hundred, Hundred, One, Dec(5, 2), Dec(5, 2), Dec(25, 2),
         Zero(1))

BadPrice ==
    NonFinite \cup {Zero(1), FromInt(-100), FMul(PRICE_MIN, Half),
                    FMul(PRICE_MAX, Two)}
BadTime ==
    NonFinite \cup {Zero(1), FromInt(-1), FMul(TIME_MIN, Half),
                    FromInt(21)}
BadRate == NonFinite \cup {FNeg(Dec(5, 2)), FromInt(1001)}
BadCarry == NonFinite \cup {FromInt(-1001), FromInt(1001)}
BadVolatility ==
    NonFinite \cup {Zero(1), FNeg(Dec(25, 2)), FMul(VOLATILITY_MIN, Half),
                    FromInt(102)}

OneBad ==
    UNION {   {[Base(fCall) EXCEPT !.S = a] : a \in BadPrice}
         \cup {[Base(fCall) EXCEPT !.X = a] : a \in BadPrice}
         \cup {[Base(fCall) EXCEPT !.T = a] : a \in BadTime}
         \cup {[Base(fCall) EXCEPT !.r = a] : a \in BadRate}
         \cup {[Base(fCall) EXCEPT !.b = a] : a \in BadCarry}
         \cup {[Base(fCall) EXCEPT !.v = a] : a \in BadVolatility}
         : fCall \in BOOLEAN}

InitEuro == Start(EuroValid \cup OneBad)
NextEuro == CallBlackScholes \/ CallGbs
SpecEuro == InitEuro /\ [][NextEuro]_vars

(* American calls: in-range values with every order of b and r, b also    *)
(* outside its range, and the base tuple with one other argument invalid.  *)
AmerArgs ==
    {Args(fCall, S, X, T, r, b, v, Zero(1)) :
        fCall \in BOOLEAN,
        S \in {FromInt(90), Hundred, FromInt(10000000)},
        X \in {Hundred, FromInt(10000000)},
        T \in {Half, One},
        r \in {INTEREST_RATE_MIN, Tiny, Dec(5, 2), Dec(1, 1),
               INTEREST_RATE_MAX},
        b \in {COST_OF_CARRY_MIN, FNeg(Dec(5, 2)), Zero(1), Tiny,
               Dec(5, 2), Dec(1, 1), COST_OF_CARRY_MAX}
              \cup BadCarry \cup {FromInt(-2000)},
        v \in {Dec(1, 2), Dec(2, 1), One}}

InitAmer == Start(AmerArgs \cup OneBad)
NextAmer == CallAmericanCallApprox \/ CallAmericanApprox
SpecAmer == InitAmer /\ [][NextAmer]_vars

--------------------------------------------------------------------------
(* Properties.  The documented range of a parameter is stated here from    *)
(* its bounds, independently of the assert_valid_* macros.                 *)

InRange(a, lo, hi) == is_sane(a) /\ FLe(lo, a) /\ FLe(a, hi)

(* a == b on doubles. *)
FEq(a, b) == ~IsNaN(a) /\ ~IsNaN(b) /\ ~Less(a, b) /\ ~Less(b, a)

PriceInRange == InRange(args.S, PRICE_MIN, PRICE_MAX)
StrikeInRange == InRange(args.X, STRIKE_MIN, STRIKE_MAX)
TimeInRange == InRange(args.T, TIME_MIN, TIME_MAX)
RateInRange == InRange(args.r, INTEREST_RATE_MIN, INTEREST_RATE_MAX)
CarryInRange == InRange(args.b, COST_OF_CARRY_MIN, COST_OF_CARRY_MAX)
VolatilityInRange == InRange(args.v, VOLATILITY_MIN, VOLATILITY_MAX)

(* S, X, T, r and v: the parameters every public function checks itself. *)
FiveInRange ==
    /\ PriceInRange /\ StrikeInRange /\ TimeInRange
    /\ RateInRange /\ VolatilityInRange
AllInRange == FiveInRange /\ CarryInRange

BranchBNames == {"Beta", "BInfinity", "B0", "ht", "I"}

(* C1: for every argument tuple inside the documented ranges,              *)
(* BSAmericanApprox returns a price: no parameter check fails in it or in  *)
(* a function it calls, for calls and for puts.                            *)
C1_InRangeNeverInvalid ==
    (fn = "BSAmericanApprox" /\ AllInRange) => out.status # "invalid"

(* C2: a call of BSAmericanCallApprox with b >= r has exactly the outcome  *)
(* of gbs(Call, S, X, T, r, b, v): the same value when gbs returns one, a  *)
(* validation failure exactly when gbs fails validation, and none of       *)
(* Beta, BInfinity, B0, ht, I or phi evaluated.                            *)
C2_BranchAIsGbs ==
    (fn = "BSAmericanCallApprox" /\ FGe(args.b, args.r)) =>
        /\ out.status =
             gbs(TRUE, args.S, args.X, args.T, args.r, args.b, args.v).status
        /\ out.value =
             gbs(TRUE, args.S, args.X, args.T, args.r, args.b, args.v).value
        /\ Names(out.ev) \cap BranchBNames = {}
        /\ out.phis = <<>>

(* A Branch A call that returned the value of gbs. *)
C2_Witness ==
    /\ fn = "BSAmericanCallApprox"
    /\ FGe(args.b, args.r)
    /\ out.status = "ok"
    /\ "gbs" \in Names(out.ev)
    /\ is_sane(out.value)

(* C3: when BSAmericanApprox's own checks pass, the put has the outcome of *)
(* BSAmericanCallApprox(X, S, T, r - b, -b, v) and the call the outcome of *)
(* BSAmericanCallApprox(S, X, T, r, b, v).                                 *)
C3_SameOutcomeAsCallApprox ==
    (fn = "BSAmericanApprox" /\ FiveInRange) =>
        IF args.fCall
        THEN /\ out.status =
                  BSAmericanCallApprox(args.S, args.X, args.T, args.r,
                                       args.b, args.v).status
             /\ out.value =
                  BSAmericanCallApprox(args.S, args.X, args.T, args.r,
                                       args.b, args.v).value
        ELSE /\ out.status =
                  BSAmericanCallApprox(args.X, args.S, args.T,
                                       FSub(args.r, args.b), FNeg(args.b),
                                       args.v).status
             /\ out.value =
                  BSAmericanCallApprox(args.X, args.S, args.T,
                                       FSub(args.r, args.b), FNeg(args.b),
                                       args.v).value

(* C4: in blackscholes and gbs a call with one of S, X, T, r, v (and b for *)
(* gbs) NaN, infinite or out of range ends in a parameter failure without  *)
(* vst, d1 or d2 evaluated; so does blackscholes with T = 0.               *)
C4_ValidationBeforeComputation ==
    (\/ fn = "blackscholes" /\ ~FiveInRange
     \/ fn = "gbs" /\ ~AllInRange) =>
        /\ out.status = "invalid"
        /\ out.ev = <<>>

(* blackscholes called with T = 0. *)
C4_Witness ==
    /\ fn = "blackscholes"
    /\ IsZero(args.T)
    /\ out.status = "invalid"
    /\ out.ev = <<>>

(* C5: a call of BSAmericanCallApprox or BSAmericanApprox whose b is NaN,  *)
(* infinite or outside [-1000, 1000] ends in a parameter failure before    *)
(* any of Beta, BInfinity, B0, ht, I or phi is computed.                   *)
C5_InvalidCarryRejected ==
    (fn \in {"BSAmericanCallApprox", "BSAmericanApprox"} /\ ~CarryInRange) =>
        /\ out.status = "invalid"
        /\ Names(out.ev) \cap BranchBNames = {}
        /\ out.phis = <<>>

(* C6: no public pricing function returns a NaN or an infinity. *)
C6_NoNonFiniteReturn ==
    out.status = "ok" => is_sane(out.value)

(* C7 as stated: for every in-range S, X, T, r, v, gbs with b = r and      *)
(* blackscholes both accept the input and have the same outcome.           *)
C7_GbsEqualsBlackScholes ==
    (fn = "gbs" /\ AllInRange /\ args.b = args.r) =>
        /\ out.status = "ok"
        /\ blackscholes(args.fCall, args.S, args.X, args.T, args.r,
                        args.v).status = "ok"
        /\ out.value =
             blackscholes(args.fCall, args.S, args.X, args.T, args.r,
                          args.v).value

(* C7, amended: for in-range S, X, T, r and v <= 100, gbs with b = r and   *)
(* blackscholes both accept the input and return the same value, with      *)
(* e^((b-r)T) = 1 and the same vst, d1 and d2.                             *)
C7_GbsEqualsBlackScholesUpTo100 ==
    (fn = "gbs" /\ AllInRange /\ args.b = args.r
        /\ FLe(args.v, FromInt(100))) =>
        /\ out.status = "ok"
        /\ blackscholes(args.fCall, args.S, args.X, args.T, args.r,
                        args.v).status = "ok"
        /\ out.value =
             blackscholes(args.fCall, args.S, args.X, args.T, args.r,
                          args.v).value
        /\ ValOf(out.ev, "ebrt") = One
        /\ SubSeq(out.ev, 1, 3) =
             blackscholes(args.fCall, args.S, args.X, args.T, args.r,
                          args.v).ev

(* gbs with b = r returned a price for a volatility blackscholes accepts. *)
C7_Witness ==
    /\ fn = "gbs"
    /\ AllInRange
    /\ args.b = args.r
    /\ FLe(args.v, FromInt(100))
    /\ out.status = "ok"
    /\ FLt(Zero(1), out.value)

(* The values cnd is compared on: the finite arguments of CndInputs. *)
CndTable == [x \in {y \in XVals : is_sane(y)} |-> cnd(x)]

(* cnd(0) as the x >= 0 branch computes it: K = 1 and exp(-0) = 1. *)
CndAtZero ==
    FSub(One, FMul(one_div_sqrt2pi,
                   FAdd(FAdd(FAdd(FAdd(a1, a2), a3), a4), a5)))

(* Two units in the last place of 1.0. *)
Ulps2 == FDiv(FromInt(4), FromInt(P2[Prec]))

CndSymmetry ==
    /\ FLt(args.x, Zero(1)) =>
           out.value = FSub(One, CndTable[fabs(args.x)])
    /\ ~IsZero(args.x) =>
           FAdd(out.value, CndTable[FNeg(args.x)]) = One
    /\ IsZero(args.x) =>
           /\ out.value = CndAtZero
           /\ FLe(fabs(FSub(out.value, Half)), Dec(1, 2))

PhiBindings(Beta, X, I) ==
    <<<<Beta, I, I>>, <<One, I, I>>, <<One, X, I>>,
      <<Zero(1), I, I>>, <<Zero(1), X, I>>>>

PhiCalledAsStated(Beta, I) ==
    /\ Len(out.phis) = 5
    /\ \A i \in 1..5 :
         /\ out.phis[i].S = args.S /\ out.phis[i].T = args.T
         /\ out.phis[i].r = args.r /\ out.phis[i].b = args.b
         /\ out.phis[i].v = args.v
         /\ <<out.phis[i].gamma, out.phis[i].H, out.phis[i].I>> =
                PhiBindings(Beta, args.X, I)[i]
         /\ out.phis[i].out.status = "ok"

ResultAsStated(alpha, Beta) ==
    FAdd(FSub(FSub(FAdd(FSub(
        FMul(alpha, pow(args.S, Beta)),
        FMul(alpha, out.phis[1].out.value)),
        out.phis[2].out.value),
        out.phis[3].out.value),
        FMul(args.X, out.phis[4].out.value)),
        FMul(args.X, out.phis[5].out.value))

BranchBOutcome(Beta, I) ==
    IF FGe(args.S, I)
    THEN /\ out.status = "ok"
         /\ out.value = FSub(args.S, args.X)
         /\ out.phis = <<>>
    ELSE /\ PhiCalledAsStated(Beta, I)
         /\ out.status = "ok"
         /\ out.value =
              ResultAsStated(FMul(FSub(I, args.X), pow(I, FNeg(Beta))),
                             Beta)

(* The trigger price I was computed and passed its assertion. *)
TriggerComputed ==
    /\ fn = "BSAmericanCallApprox"
    /\ "I" \in Names(out.ev)
    /\ is_sane(ValOf(out.ev, "I"))

(* C9: in Branch B, once I is computed, either S >= I, the result is       *)
(* S - X and phi is not called, or S < I, phi is called exactly five times *)
(* with the caller's S, T, r, b, v and (gamma, H, I) = (Beta, I, I),       *)
(* (1, I, I), (1, X, I), (0, I, I), (0, X, I), and the result is           *)
(* alpha*S^Beta - alpha*phi1 + phi2 - phi3 - X*phi4 + X*phi5 with          *)
(* alpha = (I - X) * I^(-Beta).                                            *)
C9_BranchBOutcomes ==
    TriggerComputed =>
        BranchBOutcome(ValOf(out.ev, "Beta"), ValOf(out.ev, "I"))

(* A Branch B call below the trigger price that made the five calls. *)
C9_Witness ==
    /\ TriggerComputed
    /\ FLt(args.S, ValOf(out.ev, "I"))
    /\ Len(out.phis) = 5
    /\ out.status = "ok"
    /\ is_sane(out.value)

(* C10: for a put with r = b the transformed call receives the rate zero:  *)
(* the outcome is that of BSAmericanCallApprox(X, S, T, 0, -b, v), and     *)
(* every call of phi made has r = 0.                                       *)
C10_PutWithEqualRateAndCarry ==
    (fn = "BSAmericanApprox" /\ ~args.fCall /\ AllInRange
        /\ FEq(args.r, args.b)) =>
        /\ out.ev =
             BSAmericanCallApprox(args.X, args.S, args.T, Zero(1),
                                  FNeg(args.b), args.v).ev
        /\ out.phis =
             BSAmericanCallApprox(args.X, args.S, args.T, Zero(1),
                                  FNeg(args.b), args.v).phis
        /\ out.status = "ok" =>
             out.value =
               BSAmericanCallApprox(args.X, args.S, args.T, Zero(1),
                                    FNeg(args.b), args.v).value
        /\ \A i \in DOMAIN out.phis : IsZero(out.phis[i].r)

(* An in-range put with r = b whose transformed call reached Branch B with *)
(* Beta = 1: the denominator Beta - 1 of BInfinity is zero.                *)
C10_Witness ==
    /\ fn = "BSAmericanApprox"
    /\ ~args.fCall
    /\ AllInRange
    /\ FEq(args.r, args.b)
    /\ "BInfinity" \in Names(out.ev)
    /\ IsZero(FSub(ValOf(out.ev, "Beta"), One))
    /\ ~is_sane(ValOf(out.ev, "BInfinity"))

==========================================================================
